---- MODULE Spec2Model ----
(***************************************************************************)
(* cv-mmap client: a consumer attaches once to a named shared-memory       *)
(* segment and yields a zero-copy view of it for every 14-byte             *)
(* notification pulled from a ZeroMQ channel.                              *)
(*                                                                         *)
(* Modelled from src/client/cvmmap/__init__.py (CvMmapClient),             *)
(* src/client/cvmmap/msg.py (SyncMessage) and the SharedMemory subclass    *)
(* of src/client/test_zmq.py.                                              *)
(***************************************************************************)
EXTENDS Integers, Sequences, FiniteSets, TLC

(***************************************************************************)
(* Bounds of the model.                                                    *)
(***************************************************************************)
\* messages the producer side sends over the whole run
MaxSends == 3
\* messages queued inside the channel at one time
MaxChan == 2
\* streams (calls of __aiter__) opened on the one client instance
MaxStreams == 2
\* longest byte string handed to unmarshal in the codec specification
MaxBlobLen == 16

(***************************************************************************)
(* Program constants.                                                      *)
(***************************************************************************)
\* struct.calcsize("=IHHBBI")
HeaderSize == 14

\* Optional[...] values: None is the empty tuple, a value v is <<v>>.
None == <<>>
Some(v) == <<v>>

SHM_NAME == "psm_default"
MISSING_NAME == "missing_seg"

(***************************************************************************)
(* Header codec: struct format "=IHHBBI" (native byte order, standard      *)
(* sizes, no padding).                                                     *)
(***************************************************************************)
\* the k bytes of the unsigned integer n, least significant first
RECURSIVE ToLittle(_, _)
ToLittle(n, k) == IF k = 0 THEN <<>> ELSE <<n % 256>> \o ToLittle(n \div 256, k - 1)

RECURSIVE Reverse(_)
Reverse(s) == IF s = <<>> THEN <<>> ELSE Reverse(Tail(s)) \o <<Head(s)>>

\* an unsigned integer of k bytes in the given byte order
IntToBytes(n, k, order) == IF order = "little" THEN ToLittle(n, k) ELSE Reverse(ToLittle(n, k))

RECURSIVE FromLittle(_)
FromLittle(bs) == IF bs = <<>> THEN 0 ELSE Head(bs) + 256 * FromLittle(Tail(bs))

BytesToInt(bs, order) == IF order = "little" THEN FromLittle(bs) ELSE FromLittle(Reverse(bs))

\* data[a..b], 1-based inclusive
Slice(data, a, b) == SubSeq(data, a, b)

\* struct.pack("=IHHBBI", ...): the producer side's encoding of a header
Pack(h, order) ==
    IntToBytes(h.frame_count, 4, order) \o IntToBytes(h.width, 2, order)
        \o IntToBytes(h.height, 2, order) \o IntToBytes(h.channels, 1, order)
        \o IntToBytes(h.depth, 1, order) \o IntToBytes(h.buffer_size, 4, order)

\* the tuple struct.unpack("=IHHBBI", data) returns for a 14-byte buffer
\* (variant: height before width)
UnpackSwappedFields(data, order) ==
    << BytesToInt(Slice(data, 1, 4), order), BytesToInt(Slice(data, 7, 8), order),
       BytesToInt(Slice(data, 5, 6), order), BytesToInt(Slice(data, 9, 9), order),
       BytesToInt(Slice(data, 10, 10), order), BytesToInt(Slice(data, 11, 14), order) >>

StructUnpackFields(data, order) ==
    << BytesToInt(Slice(data, 1, 4), order), BytesToInt(Slice(data, 5, 6), order),
       BytesToInt(Slice(data, 7, 8), order), BytesToInt(Slice(data, 9, 9), order),
       BytesToInt(Slice(data, 10, 10), order), BytesToInt(Slice(data, 11, 14), order) >>

\* whether struct.unpack accepts a buffer of this length
\* (variant: unpack_from, which accepts a longer buffer)
AcceptsAtLeast(n) == n >= HeaderSize

StructAccepts(n) == n = HeaderSize

\* SyncMessage(frame_count=..., width=..., ...) from the unpacked tuple
SyncMessage(t) ==
    [frame_count |-> t[1], width |-> t[2], height |-> t[3], channels |-> t[4],
     depth |-> t[5], buffer_size |-> t[6]]

\* SyncMessage.unmarshal: [err |-> "" , val |-> <<header>>] or
\* [err |-> "struct.error", val |-> None]
unmarshal(data, order) ==
    IF ~StructAccepts(Len(data))
    THEN [err |-> "struct.error", val |-> None]
    ELSE [err |-> "", val |-> Some(SyncMessage(StructUnpackFields(data, order)))]

(***************************************************************************)
(* The operating system's shared memory and the process's resource         *)
(* tracker: os = [segs, register, tracked].                                *)
(*   segs     : name -> [size, bytes], the segments that exist             *)
(*   register : the function bound to resource_tracker.register            *)
(*   tracked  : names registered for unlinking when the process exits      *)
(***************************************************************************)
Zeros(n) == [i \in 1..n |-> 0]

\* resource_tracker.register(name, "shared_memory") through the current binding
CallRegister(os, name) ==
    IF os.register = "orig" THEN [os EXCEPT !.tracked = @ \cup {name}] ELSE os

\* shm_open and ftruncate of SharedMemory.__init__ with create=True:
\* a new zero-filled segment of the given size
Created(name, size, os) ==
    [os EXCEPT !.segs = [n \in DOMAIN @ \cup {name} |->
                            IF n = name THEN [size |-> size, bytes |-> Zeros(size)]
                                        ELSE @[n]]]

\* fstat, mmap of the segment's real size and registration with the tracker
Mapped(name, os) ==
    [err |-> "", size |-> os.segs[name].size, os |-> CallRegister(os, name)]

\* multiprocessing.shared_memory.SharedMemory.__init__ (POSIX)
SuperInit(name, create, size, os) ==
    IF size < 0 THEN [err |-> "ValueError", size |-> 0, os |-> os]
    ELSE IF create /\ name \in DOMAIN os.segs
    THEN [err |-> "FileExistsError", size |-> 0, os |-> os]
    ELSE IF ~create /\ name \notin DOMAIN os.segs
    THEN [err |-> "FileNotFoundError", size |-> 0, os |-> os]
    ELSE IF create THEN Mapped(name, Created(name, size, os))
    ELSE Mapped(name, os)

\* the SharedMemory object after super().__init__ returned r, with
\* resource_tracker.register bound to register again
Constructed(r, name, track, register) ==
    [err |-> r.err, os |-> [r.os EXCEPT !.register = register],
     handle |-> [name |-> name, size |-> r.size, track |-> track]]

\* SharedMemory(name, create, size, track=...): the subclass that can attach
\* without registering the segment with the resource tracker
SharedMemory(name, create, size, track, os) ==
    IF track
    THEN Constructed(SuperInit(name, create, size, os), name, track, os.register)
    ELSE Constructed(SuperInit(name, create, size, [os EXCEPT !.register = "tmp"]),
                     name, track, os.register)

\* the resource tracker at process exit: unlinks every registered segment
ExitCleanup(os) ==
    [os EXCEPT !.segs = [n \in DOMAIN @ \ os.tracked |-> @[n]], !.tracked = {}]

(***************************************************************************)
(* numpy views.  A view is [id, shape, base, data]: id is the identity of  *)
(* the array object (the frame_count of the header it was built for),      *)
(* base = "shm" for an array over the mapped segment, "copy" for an array  *)
(* owning its bytes in data.                                               *)
(***************************************************************************)
NBytes(shape) == shape[1] * shape[2] * shape[3]

\* np.ndarray(shape, dtype=np.uint8, buffer=shm.buf)
\* (variant: clips the requested shape to the buffer instead of raising)
NdArrayClipped(shape, buflen, id) ==
    IF NBytes(shape) > buflen
    THEN [err |-> "", val |-> [id |-> id, shape |-> <<1, buflen, 1>>, base |-> "shm", data |-> <<>>]]
    ELSE [err |-> "", val |-> [id |-> id, shape |-> shape, base |-> "shm", data |-> <<>>]]

NdArray(shape, buflen, id) ==
    IF NBytes(shape) > buflen
    THEN [err |-> "TypeError", val |-> [id |-> id, shape |-> shape, base |-> "shm", data |-> <<>>]]
    ELSE [err |-> "", val |-> [id |-> id, shape |-> shape, base |-> "shm", data |-> <<>>]]

\* the bytes a reader gets through a view
ReadView(v, os) ==
    IF v.base = "copy" THEN v.data
    ELSE IF SHM_NAME \in DOMAIN os.segs
    THEN SubSeq(os.segs[SHM_NAME].bytes, 1, NBytes(v.shape))
    ELSE <<>>

(***************************************************************************)
(* CvMmapClient.                                                           *)
(***************************************************************************)
\* the byte length of handle.buf
BufLen(handle) == handle.size

\* self._shm = SharedMemory(...): r is what the constructor did; calls counts
\* the SharedMemory constructions
\* (variant: the handle is constructed and not stored in self._shm)
AssignedNowhere(r, shm) ==
    [err |-> r.err, os |-> r.os, calls |-> 1, shm |-> shm]

Assigned(r, shm) ==
    [err |-> r.err, os |-> r.os, calls |-> 1,
     shm |-> IF r.err = "" THEN Some(r.handle) ELSE shm]

\* CvMmapClient._init_shm(size) on a client whose handle is shm
\* (variant: attaches without testing self._shm)
InitShmNoGuard(shm, name, size, os) ==
    Assigned(SharedMemory(name, FALSE, size, FALSE, os), shm)

\* (variant: attaches with track=True)
InitShmTracking(shm, name, size, os) ==
    IF shm = None
    THEN Assigned(SharedMemory(name, FALSE, size, TRUE, os), shm)
    ELSE [err |-> "ValueError", os |-> os, calls |-> 0, shm |-> shm]

_init_shm(shm, name, size, os) ==
    IF shm = None
    THEN Assigned(SharedMemory(name, FALSE, size, FALSE, os), shm)
    ELSE [err |-> "ValueError", os |-> os, calls |-> 0, shm |-> shm]

\* the condition of "if self._image_buffer is None"
NeedsInit(image_buffer) == image_buffer = None

\* the value of "yield self._image_buffer" at the k-th yield of the stream
\* (variant: yields self._image_buffer.copy())
YieldCopy(view, os, k) ==
    [id |-> view.id + k, shape |-> view.shape, base |-> "copy", data |-> ReadView(view, os)]

YieldValue(view, os, k) == view

\* The try statement for one received message gives a record: outcome is
\* "yield" (with value) or "raise" (with err), shm, image_buffer and os are
\* the client's fields and the system after it, hdr the decoded header,
\* calls counts the SharedMemory constructions, attached those that succeeded.

\* line 80, yield self._image_buffer
\* (variant: no yield statement, the loop goes on to the next message)
YieldsNothing(hdr, shm, image_buffer, os, calls, k) ==
    [outcome |-> "continue", err |-> "", shm |-> shm, image_buffer |-> image_buffer,
     os |-> os, calls |-> calls, attached |-> calls, value |-> None, hdr |-> hdr]

Yields(hdr, shm, image_buffer, os, calls, k) ==
    [outcome |-> "yield", err |-> "", shm |-> shm, image_buffer |-> image_buffer,
     os |-> os, calls |-> calls, attached |-> calls,
     value |-> Some(YieldValue(image_buffer[1], os, k)), hdr |-> hdr]

\* an exception leaves the try body
Raises(err, hdr, shm, image_buffer, os, calls, attached) ==
    [outcome |-> "raise", err |-> err, shm |-> shm, image_buffer |-> image_buffer,
     os |-> os, calls |-> calls, attached |-> attached, value |-> None, hdr |-> hdr]

\* lines 71-80: a is what np.ndarray(...) gave after _init_shm returned i
\* (variant: the view is an array owning a copy of the segment's bytes)
AfterBuildCopy(a, i, hdr, image_buffer, k) ==
    IF a.err # ""
    THEN Raises(a.err, hdr, i.shm, image_buffer, i.os, i.calls, i.calls)
    ELSE Yields(hdr, i.shm,
                Some([a.val EXCEPT !.base = "copy", !.data = ReadView(a.val, i.os)]),
                i.os, i.calls, k)

AfterBuild(a, i, hdr, image_buffer, k) ==
    IF a.err # ""
    THEN Raises(a.err, hdr, i.shm, image_buffer, i.os, i.calls, i.calls)
    ELSE Yields(hdr, i.shm, Some(a.val), i.os, i.calls, k)

\* lines 70-80: i is what self._init_shm(sync_message.buffer_size) did;
\* line 70 is "assert self._shm is not None"
AfterInit(i, hdr, image_buffer, k) ==
    IF i.err # ""
    THEN Raises(i.err, hdr, i.shm, image_buffer, i.os, i.calls, 0)
    ELSE IF i.shm = None
    THEN Raises("AssertionError", hdr, i.shm, image_buffer, i.os, i.calls, i.calls)
    ELSE AfterBuild(NdArray(<<hdr[1].height, hdr[1].width, hdr[1].channels>>,
                            BufLen(i.shm[1]), hdr[1].frame_count),
                    i, hdr, image_buffer, k)

\* lines 67-80: m is what SyncMessage.unmarshal(message) gave
\* (variant: builds the view anew when the header's dimensions differ from
\* the view's)
AfterUnmarshalRebuild(m, shm, image_buffer, name, os, k) ==
    IF m.err # ""
    THEN Raises(m.err, None, shm, image_buffer, os, 0, 0)
    ELSE IF NeedsInit(image_buffer)
    THEN AfterInit(_init_shm(shm, name, m.val[1].buffer_size, os), m.val, image_buffer, k)
    ELSE IF image_buffer[1].shape # <<m.val[1].height, m.val[1].width, m.val[1].channels>>
    THEN AfterBuild(NdArray(<<m.val[1].height, m.val[1].width, m.val[1].channels>>,
                            BufLen(shm[1]), m.val[1].frame_count),
                    [err |-> "", os |-> os, calls |-> 0, shm |-> shm], m.val, image_buffer, k)
    ELSE Yields(m.val, shm, image_buffer, os, 0, k)

AfterUnmarshal(m, shm, image_buffer, name, os, k) ==
    IF m.err # ""
    THEN Raises(m.err, None, shm, image_buffer, os, 0, 0)
    ELSE IF NeedsInit(image_buffer)
    THEN AfterInit(_init_shm(shm, name, m.val[1].buffer_size, os), m.val, image_buffer, k)
    ELSE Yields(m.val, shm, image_buffer, os, 0, k)

\* the body of the try statement for one received message
TryBody(message, shm, image_buffer, name, os, order, k) ==
    AfterUnmarshal(unmarshal(message, order), shm, image_buffer, name, os, k)

\* the except clause of the loop: which errors it catches
\* (variants: "except Exception", and no except clause)
CatchesAll(err) == TRUE

CatchesNone(err) == FALSE

LoopCatches(err) == err = "struct.error"

\* lines 81-83: a caught error is logged and the loop continues
\* (variant: a caught error ends the loop, return instead of continue)
ExceptReturn(t) ==
    IF t.outcome = "raise" /\ LoopCatches(t.err)
    THEN [t EXCEPT !.outcome = "return"]
    ELSE t

Except(t) ==
    IF t.outcome = "raise" /\ LoopCatches(t.err)
    THEN [t EXCEPT !.outcome = "continue"]
    ELSE t

\* one received message through try/except: "yield", "continue" (logged and
\* dropped) or "raise" (the error leaves the generator)
Handler(message, shm, image_buffer, name, os, order, k) ==
    Except(TryBody(message, shm, image_buffer, name, os, order, k))

(***************************************************************************)
(* State.                                                                  *)
(***************************************************************************)
VARIABLES
    byteorder,      \* sys.byteorder of the platform: "little" or "big"
    os,             \* shared memory and resource tracker, see above
    chan,           \* messages queued in the PULL socket, oldest first
    sends,          \* messages sent so far
    pframe,         \* the producer's frame counter
    pcur,           \* the next byte of the segment the producer writes
    _shm_name,      \* CvMmapClient._shm_name
    _shm,           \* CvMmapClient._shm: None or <<handle>>
    _image_buffer,  \* CvMmapClient._image_buffer: None or <<view>>
    pc,             \* where the generator of __aiter__ stands
    cause,          \* the exception that closed the stream, "" otherwise
    stream,         \* number of streams opened on the client
    yielded,        \* this stream's yields: [view, frame_count of the notification,
                    \* snap: the bytes readable through the view when it was yielded]
    received,       \* this stream's received messages, in receipt order:
                    \* [ok: whether it decoded, frame_count: of the header, 0 for a blob]
    attachCalls,    \* SharedMemory constructions during this stream
    attachOk,       \* successful SharedMemory constructions of the client
    firstHdr,       \* the first header the client decoded: None or <<header>>
    sync_message,   \* the generator's local sync_message: None or <<header>>
    codecIn,        \* CodecSpec: the bytes given to unmarshal
    codecHdr,       \* CodecSpec: the header codecIn packs, None for a blob
    codecOut        \* CodecSpec: None or <<result of unmarshal>>

clientVars == <<_shm_name, _shm, _image_buffer, pc, cause, stream, yielded, received,
                attachCalls, attachOk, firstHdr, sync_message>>
producerVars == <<sends, pframe, pcur>>
codecVars == <<codecIn, codecHdr, codecOut>>
vars == <<byteorder, os, chan, producerVars, clientVars, codecVars>>

(***************************************************************************)
(* Inputs.                                                                 *)
(***************************************************************************)
ByteOrders == {"little", "big"}

\* byte sizes of the producer's segment
SegSizes == {2, 3}

\* what the producer announces: <<height, width, channels, buffer_size>>
Announced == { <<1, 2, 1, 2>>, <<2, 2, 1, 4>>, <<1, 2, 1, 4>> }

Header(fc, a) ==
    [frame_count |-> fc, width |-> a[2], height |-> a[1], channels |-> a[3],
     depth |-> 0, buffer_size |-> a[4]]

\* malformed messages: a header cut short, and a header with a byte too many
Blobs(order) ==
    { SubSeq(Pack(Header(1, <<1, 2, 1, 2>>), order), 1, HeaderSize - 1),
      Pack(Header(1, <<1, 2, 1, 2>>), order) \o <<0>> }

(***************************************************************************)
(* Init: the client as __init__ leaves it, the producer's segment in       *)
(* place, nothing sent.                                                    *)
(***************************************************************************)
ClientInit ==
    /\ _shm_name \in {SHM_NAME, MISSING_NAME}
    /\ _shm = None
    /\ _image_buffer = None
    /\ pc = "idle"
    /\ cause = ""
    /\ stream = 0
    /\ yielded = <<>>
    /\ received = <<>>
    /\ attachCalls = 0
    /\ attachOk = 0
    /\ firstHdr = None
    /\ sync_message = None

EnvInit ==
    /\ \E n \in SegSizes :
          os = [segs |-> [s \in {SHM_NAME} |-> [size |-> n, bytes |-> Zeros(n)]],
                register |-> "orig", tracked |-> {}]
    /\ chan = <<>>
    /\ sends = 0
    /\ pframe = 1
    /\ pcur = 1

\* the stream runs on a little-endian platform; CodecSpec covers both orders
Init ==
    /\ byteorder = "little"
    /\ EnvInit
    /\ ClientInit
    /\ codecIn = <<>>
    /\ codecHdr = None
    /\ codecOut = None

(***************************************************************************)
(* The producer and the channel (the environment of the client), observed  *)
(* for as long as the client's process lives.                              *)
(***************************************************************************)
\* the producer writes the next byte of frame pframe into the segment
ProducerWrite ==
    /\ pc # "exited"
    /\ SHM_NAME \in DOMAIN os.segs
    /\ pframe <= MaxSends
    /\ pcur <= os.segs[SHM_NAME].size
    /\ os' = [os EXCEPT !.segs[SHM_NAME].bytes[pcur] = pframe]
    /\ pcur' = pcur + 1
    /\ UNCHANGED <<byteorder, chan, sends, pframe, clientVars, codecVars>>

\* the frame is written: the producer pushes its notification and goes on,
\* waiting for no acknowledgement
ProducerNotify ==
    /\ pc # "exited"
    /\ SHM_NAME \in DOMAIN os.segs
    /\ pcur > os.segs[SHM_NAME].size
    /\ sends < MaxSends
    /\ Len(chan) < MaxChan
    /\ \E a \in Announced : chan' = Append(chan, Pack(Header(pframe, a), byteorder))
    /\ sends' = sends + 1
    /\ pframe' = pframe + 1
    /\ pcur' = 1
    /\ UNCHANGED <<byteorder, os, clientVars, codecVars>>

\* a message that is no 14-byte header arrives on the channel
SendBlob ==
    /\ pc # "exited"
    /\ sends < MaxSends
    /\ Len(chan) < MaxChan
    /\ \E b \in Blobs(byteorder) : chan' = Append(chan, b)
    /\ sends' = sends + 1
    /\ UNCHANGED <<byteorder, os, pframe, pcur, clientVars, codecVars>>

(***************************************************************************)
(* The stream: the asynchronous generator of CvMmapClient.__aiter__.       *)
(*   pc = "idle"    no stream opened yet                                   *)
(*        "poll"    suspended in await self._poller.poll()                 *)
(*        "recv"    poll returned POLLIN, suspended in await socket.recv() *)
(*        "yield"   suspended at yield, the caller holds the view          *)
(*        "closed"  the generator ended with the exception in cause        *)
(*        "exited"  the client's process has exited                        *)
(***************************************************************************)
\* the caller starts iterating: a new generator runs up to its first poll
Aiter ==
    /\ pc \in {"idle", "closed"}
    /\ stream < MaxStreams
    /\ stream' = stream + 1
    /\ pc' = "poll"
    /\ cause' = ""
    /\ yielded' = <<>>
    /\ received' = <<>>
    /\ attachCalls' = 0
    /\ sync_message' = None
    /\ UNCHANGED <<byteorder, os, chan, producerVars, _shm_name, _shm, _image_buffer,
                   attachOk, firstHdr, codecVars>>

\* the caller asks for the next item: the generator resumes after the yield,
\* the for loop over the events ends and the while loop polls again
Anext ==
    /\ pc = "yield"
    /\ pc' = "poll"
    /\ UNCHANGED <<byteorder, os, chan, producerVars, _shm_name, _shm, _image_buffer,
                   cause, stream, yielded, received, attachCalls, attachOk, firstHdr,
                   sync_message, codecVars>>

\* poll() returns the socket with POLLIN once a message is queued
Poll ==
    /\ pc = "poll"
    /\ chan # <<>>
    /\ pc' = "recv"
    /\ UNCHANGED <<byteorder, os, chan, producerVars, _shm_name, _shm, _image_buffer,
                   cause, stream, yielded, received, attachCalls, attachOk, firstHdr,
                   sync_message, codecVars>>

\* how many messages one pass of the loop takes from the socket
\* (variant: drains the queue down to its newest message)
TakesTwo(queue) == IF Len(queue) >= 2 THEN 2 ELSE 1

Takes(queue) == 1

\* socket.recv() returns and the message goes through the try statement
Recv ==
    /\ pc = "recv"
    /\ chan # <<>>
    /\ \E r \in {Handler(chan[Takes(chan)], _shm, _image_buffer, _shm_name, os,
                           byteorder, Len(yielded) + 1)} :
           /\ chan' = SubSeq(chan, Takes(chan) + 1, Len(chan))
           /\ os' = r.os
           /\ _shm' = r.shm
           /\ _image_buffer' = r.image_buffer
           /\ attachCalls' = attachCalls + r.calls
           /\ attachOk' = attachOk + r.attached
           /\ received' = Append(received,
                                 IF r.hdr # None
                                 THEN [ok |-> TRUE, frame_count |-> r.hdr[1].frame_count]
                                 ELSE [ok |-> FALSE, frame_count |-> 0])
           /\ firstHdr' = IF firstHdr = None THEN r.hdr ELSE firstHdr
           /\ sync_message' = IF r.hdr # None THEN r.hdr ELSE sync_message
           /\ yielded' = IF r.outcome = "yield"
                         THEN Append(yielded, [view |-> r.value[1],
                                               frame_count |-> r.hdr[1].frame_count,
                                               snap |-> ReadView(r.value[1], r.os)])
                         ELSE yielded
           /\ pc' = CASE r.outcome = "yield" -> "yield"
                      [] r.outcome = "continue" -> "poll"
                      [] OTHER -> "closed"
           /\ cause' = IF r.outcome = "raise" THEN r.err ELSE cause
    /\ UNCHANGED <<byteorder, producerVars, _shm_name, stream, codecVars>>

\* Leaving the loop: the generator has no finally clause and no context
\* manager, and nothing calls close() on self._shm, so the fields stay.

\* the caller cancels the task while the generator awaits poll or recv
Cancel ==
    /\ pc \in {"poll", "recv"}
    /\ pc' = "closed"
    /\ cause' = "CancelledError"
    /\ UNCHANGED <<byteorder, os, chan, producerVars, _shm_name, _shm, _image_buffer,
                   stream, yielded, received, attachCalls, attachOk, firstHdr,
                   sync_message, codecVars>>

\* the channel fails while the generator awaits poll or recv
ChannelError ==
    /\ pc \in {"poll", "recv"}
    /\ pc' = "closed"
    /\ cause' = "ZMQError"
    /\ UNCHANGED <<byteorder, os, chan, producerVars, _shm_name, _shm, _image_buffer,
                   stream, yielded, received, attachCalls, attachOk, firstHdr,
                   sync_message, codecVars>>

\* anyio.run(main) returns once the stream has ended and the client's process
\* exits: the resource tracker unlinks what it tracks
ProcessExit ==
    /\ pc \in {"idle", "closed"}
    /\ pc' = "exited"
    /\ os' = ExitCleanup(os)
    /\ UNCHANGED <<byteorder, chan, producerVars, _shm_name, _shm, _image_buffer,
                   cause, stream, yielded, received, attachCalls, attachOk, firstHdr,
                   sync_message, codecVars>>

Next ==
    \/ ProducerWrite
    \/ ProducerNotify
    \/ SendBlob
    \/ Aiter
    \/ Anext
    \/ Poll
    \/ Recv
    \/ Cancel
    \/ ChannelError
    \/ ProcessExit

Spec == Init /\ [][Next]_vars

\* The stream with a channel that keeps delivering and a caller that keeps
\* iterating: nothing cancels the generator, the channel does not fail and
\* the process does not exit.
LiveNext ==
    \/ ProducerWrite
    \/ ProducerNotify
    \/ SendBlob
    \/ Aiter
    \/ Anext
    \/ Poll
    \/ Recv

\* ENABLED <<Recv>>_vars: recv() has a message to return
RecvEnabled == pc = "recv" /\ chan # <<>>

\* WF_vars(Recv), with ENABLED <<Recv>>_vars written out as RecvEnabled
RecvFair == []<>~RecvEnabled \/ []<><<Recv>>_vars

\* The event loop runs the generator whenever it can go on (poll() returns
\* once a message is queued, recv() returns it) and the caller asks for the
\* next item after every yield.
LiveSpec == Init /\ [][LiveNext]_vars /\ WF_vars(Poll) /\ RecvFair /\ WF_vars(Anext)

(***************************************************************************)
(* Derived views of the state.                                             *)
(***************************************************************************)
\* frame_count of the well-formed messages this stream received, in order
WellFormed == [k \in 1..Len(SelectSeq(received, LAMBDA e : e.ok)) |->
                  SelectSeq(received, LAMBDA e : e.ok)[k].frame_count]

\* number of malformed messages this stream received
Dropped == Len(SelectSeq(received, LAMBDA e : ~e.ok))

Uninitialized == _shm = None /\ _image_buffer = None
Attached == _shm # None /\ _image_buffer # None

(***************************************************************************)
(* The codec on its own: unmarshal applied to packed headers over the      *)
(* whole range of every field, and to byte strings of every length up to   *)
(* MaxBlobLen.  The client does not run.                                   *)
(***************************************************************************)
\* the 32-bit fields go up to 2^31 - 1, the largest integer TLC represents
CodecHeaders ==
    [frame_count : {0, 1, 256, 2147483647}, width : {0, 4, 258, 65535},
     height : {0, 2, 513, 65535}, channels : {0, 3, 255}, depth : {0, 5, 255},
     buffer_size : {0, 24, 65537, 2147483647}]

\* the header of the spec's scenario
ScenarioHeader ==
    [frame_count |-> 1, width |-> 4, height |-> 2, channels |-> 3, depth |-> 0,
     buffer_size |-> 24]

\* n bytes: the packed scenario header cut short or padded with 255s
BlobOfLen(n, order) ==
    IF n <= HeaderSize
    THEN SubSeq(Pack(ScenarioHeader, order), 1, n)
    ELSE Pack(ScenarioHeader, order) \o [i \in 1..(n - HeaderSize) |-> 255]

CodecInit ==
    /\ byteorder \in ByteOrders
    /\ EnvInit
    /\ ClientInit
    /\ codecOut = None
    /\ \/ \E h \in CodecHeaders \cup {ScenarioHeader} :
             /\ codecHdr = Some(h)
             /\ codecIn = Pack(h, byteorder)
       \/ \E n \in (0..MaxBlobLen) \ {HeaderSize} :
             /\ codecHdr = None
             /\ codecIn = BlobOfLen(n, byteorder)

\* SyncMessage.unmarshal(codecIn)
CodecDecode ==
    /\ codecOut = None
    /\ codecOut' = Some(unmarshal(codecIn, byteorder))
    /\ UNCHANGED <<byteorder, os, chan, producerVars, clientVars, codecIn, codecHdr>>

CodecNext == CodecDecode

CodecSpec == CodecInit /\ [][CodecNext]_vars

(***************************************************************************)
(* Properties.                                                             *)
(***************************************************************************)
FatalErrors == {"FileNotFoundError", "ValueError", "TypeError"}

FirstHeaderFits ==
    /\ _shm_name \in DOMAIN os.segs
    /\ firstHdr # None =>
          firstHdr[1].height * firstHdr[1].width * firstHdr[1].channels
              <= os.segs[_shm_name].size

\* C2: with an attachable segment large enough for the first header, the
\* stream has yielded exactly one view per well-formed notification received,
\* in arrival order, nothing for a malformed message, and no malformed
\* message ever closes the stream.
MalformedResilience ==
    /\ cause # "struct.error"
    /\ FirstHeaderFits =>
          /\ Len(yielded) = Len(WellFormed)
          /\ \A k \in 1..Len(yielded) : yielded[k].frame_count = WellFormed[k]
          /\ cause \notin FatalErrors

\* a malformed message before the first attach and one after it, one yield
MalformedResilienceWitness ==
    /\ Len(received) = 3
    /\ ~received[1].ok /\ received[2].ok /\ ~received[3].ok
    /\ Len(yielded) = 1
    /\ pc = "poll"

\* C3: no closed stream is left holding an attached handle.
ReleasedOnEveryExit == pc = "closed" => _shm = None

\* C4: the producer's segment exists with its size in every state, nothing
\* is registered with the resource tracker, resource_tracker.register is the
\* original function, the handle is a non-tracking one, and no step creates,
\* removes or resizes a segment.
NeverUnlink ==
    /\ [](/\ DOMAIN os.segs = {SHM_NAME}
          /\ os.tracked = {}
          /\ os.register = "orig"
          /\ _shm # None => ~_shm[1].track)
    /\ [][/\ DOMAIN os'.segs = DOMAIN os.segs
          /\ \A n \in DOMAIN os.segs : os'.segs[n].size = os.segs[n].size]_vars

\* the client attached, its stream ended, its process exited: the segment is there
NeverUnlinkWitness ==
    /\ pc = "exited"
    /\ _shm # None
    /\ SHM_NAME \in DOMAIN os.segs

\* C5: when no segment of the configured name exists, nothing is ever
\* yielded and a stream that received a well-formed notification is closed
\* by FileNotFoundError; in general a well-formed notification that was not
\* yielded closed the stream with its error, and no decode error ever did.
AttachErrorsFatal ==
    /\ _shm_name \notin DOMAIN os.segs =>
          /\ yielded = <<>>
          /\ Len(WellFormed) >= 1 =>
                pc \in {"closed", "exited"} /\ cause = "FileNotFoundError"
    /\ Len(WellFormed) > Len(yielded) =>
          pc \in {"closed", "exited"} /\ cause \in FatalErrors
    /\ cause # "struct.error"

\* the attach failed after a malformed message had been dropped
AttachErrorsFatalWitness ==
    /\ _shm_name = MISSING_NAME
    /\ pc = "closed"
    /\ cause = "FileNotFoundError"
    /\ Dropped >= 1
    /\ yielded = <<>>

\* C6: the k-th yield is for the k-th well-formed notification received;
\* a message is received only by the step that leaves "recv", which takes
\* exactly the oldest queued message; while the caller holds a yielded view
\* nothing is received.
Ordering ==
    /\ [](/\ Len(yielded) <= Len(WellFormed)
          /\ \A k \in 1..Len(yielded) : yielded[k].frame_count = WellFormed[k]
          /\ pc = "yield" => Len(yielded) = Len(WellFormed))
    /\ [][/\ (received' # received /\ received' # <<>>) =>
                /\ pc = "recv"
                /\ chan' = Tail(chan)
                /\ Len(received') = Len(received) + 1
          /\ pc = "yield" => received' = received /\ Len(chan') >= Len(chan)
          /\ Len(yielded') > Len(yielded) => Len(yielded') = Len(yielded) + 1]_vars

\* two yields in order with a message waiting that the loop has not taken
OrderingWitness ==
    /\ pc = "yield"
    /\ Len(yielded) = 2
    /\ yielded[1].frame_count < yielded[2].frame_count
    /\ chan # <<>>

\* C7: every yield of the stream is the client's one view object, built
\* over the segment, and the bytes read through it are the segment's
\* current bytes.
ZeroCopyAliasing ==
    \A k \in 1..Len(yielded) :
        /\ _image_buffer # None
        /\ yielded[k].view = _image_buffer[1]
        /\ yielded[k].view.base = "shm"
        /\ ReadView(yielded[k].view, os)
              = SubSeq(os.segs[SHM_NAME].bytes, 1, NBytes(yielded[k].view.shape))

\* the caller still holds the last yielded view and the producer has
\* written since: the view reads other bytes than when it was yielded
ZeroCopyAliasingWitness ==
    /\ pc = "yield"
    /\ yielded # <<>>
    /\ ReadView(yielded[Len(yielded)].view, os) # yielded[Len(yielded)].snap

\* C8: unmarshal succeeds exactly on 14-byte inputs; on any other length it
\* fails with struct.error and returns no header.
HeaderLengthInvariant ==
    codecOut # None =>
        /\ (codecOut[1].err = "") <=> (Len(codecIn) = 14)
        /\ Len(codecIn) # 14 => codecOut[1].err = "struct.error" /\ codecOut[1].val = None
        /\ codecOut[1].err = "" => codecOut[1].val # None

\* a 15-byte input was refused
HeaderLengthWitness ==
    /\ codecOut # None
    /\ Len(codecIn) = 15
    /\ codecOut[1].err = "struct.error"

\* C9: the packing of a header is 14 bytes and unmarshal returns a header
\* equal to it in every field.
HeaderRoundTrip ==
    (codecOut # None /\ codecHdr # None) =>
        /\ Len(codecIn) = 14
        /\ codecOut[1].err = ""
        /\ codecOut[1].val = codecHdr

\* the scenario header was decoded to its six values
HeaderRoundTripWitness ==
    /\ codecHdr = Some(ScenarioHeader)
    /\ codecOut # None
    /\ codecOut[1].val # None
    /\ codecOut[1].val[1].frame_count = 1
    /\ codecOut[1].val[1].width = 4
    /\ codecOut[1].val[1].height = 2
    /\ codecOut[1].val[1].channels = 3
    /\ codecOut[1].val[1].depth = 0
    /\ codecOut[1].val[1].buffer_size = 24

\* C10: the client has no handle and no view until it has decoded a header;
\* handle and view are set only by the step that processes the first decoded
\* header, a stream that has yielded is Attached, and once set neither the
\* handle nor the view ever changes.
WriteOnce ==
    /\ [](/\ firstHdr = None => Uninitialized
          /\ yielded # <<>> => Attached
          /\ _image_buffer # None => _shm # None)
    /\ [][/\ _shm # None => _shm' = _shm
          /\ _image_buffer # None => _image_buffer' = _image_buffer
          /\ (_shm' # _shm \/ _image_buffer' # _image_buffer) =>
                pc = "recv" /\ firstHdr = None /\ firstHdr' # None]_vars

\* Attached, and later messages of both kinds went through
WriteOnceWitness ==
    /\ Attached
    /\ Len(yielded) >= 2
    /\ Dropped >= 1
    /\ received[1].ok

\* C11: a well-formed message processed by a client that holds a handle and
\* no view calls _init_shm on the attached client: the step raises
\* ValueError, constructs no SharedMemory, and leaves the handle, the system's
\* segments and the view as they were; a stream closed by ValueError has
\* constructed nothing.
SecondAttachFailsLoudly ==
    /\ [](cause = "ValueError" => _shm # None /\ attachCalls = 0)
    /\ [][(/\ pc = "recv"
           /\ _shm # None
           /\ _image_buffer = None
           /\ Len(received') = Len(received) + 1
           /\ received'[Len(received')].ok)
          => /\ pc' = "closed"
             /\ cause' = "ValueError"
             /\ _shm' = _shm
             /\ _image_buffer' = None
             /\ os' = os
             /\ attachCalls' = attachCalls
             /\ attachOk' = attachOk
             /\ yielded' = yielded]_vars

\* a second stream of the client was closed by the already-attached error
SecondAttachWitness ==
    /\ stream = 2
    /\ pc = "closed"
    /\ cause = "ValueError"
    /\ _shm # None
    /\ attachOk = 1

\* C12: when the first decoded header declares a buffer_size larger than the
\* existing segment, the attach fails: the client never holds a handle and
\* nothing is yielded.
SizeMustMatch ==
    (/\ firstHdr # None
     /\ _shm_name \in DOMAIN os.segs
     /\ firstHdr[1].buffer_size > os.segs[_shm_name].size)
    => /\ _shm = None
       /\ _image_buffer = None
       /\ yielded = <<>>

\* the shape the first decoded header asks for
FirstShape == <<firstHdr[1].height, firstHdr[1].width, firstHdr[1].channels>>

\* C13: every yielded view has the shape (height, width, channels) of the
\* first decoded header, lies within the attached handle's buffer and within
\* the segment, and reads exactly height*width*channels bytes; when the first
\* decoded header asks for more bytes than the existing segment holds, no view
\* is ever built or yielded and a stream that received a well-formed
\* notification is closed by the buffer-too-small TypeError (or, on a later
\* stream of that client, by the already-attached ValueError).
ViewBounds ==
    /\ \A k \in 1..Len(yielded) :
          /\ firstHdr # None
          /\ yielded[k].view.shape = FirstShape
          /\ _shm # None
          /\ NBytes(yielded[k].view.shape) <= BufLen(_shm[1])
          /\ NBytes(yielded[k].view.shape) <= os.segs[SHM_NAME].size
          /\ Len(ReadView(yielded[k].view, os)) = NBytes(FirstShape)
    /\ (/\ firstHdr # None
        /\ _shm_name \in DOMAIN os.segs
        /\ NBytes(FirstShape) > os.segs[_shm_name].size)
       => /\ _image_buffer = None
          /\ yielded = <<>>
          /\ Len(WellFormed) >= 1 =>
                /\ pc \in {"closed", "exited"}
                /\ cause \in {"TypeError", "ValueError"}
          /\ stream = 1 => cause # "ValueError"

\* a 2x2x1 view asked of a shorter segment: the first stream closed by TypeError
ViewBoundsWitness ==
    /\ stream = 1
    /\ pc = "closed"
    /\ cause = "TypeError"
    /\ firstHdr # None
    /\ NBytes(FirstShape) = 4
    /\ yielded = <<>>

\* what ends a stream from outside the try statement
Interruptions == {"CancelledError", "ZMQError"}

\* C14: a closed stream was closed by an exception, the caller's cancellation
\* or an error leaving the generator, never by the loop returning; every step
\* that closes a stream records that exception, and a stream that is open
\* stays open through every other step, whatever it received.
UnboundedStream ==
    /\ [](/\ pc = "closed" => cause \in Interruptions \cup FatalErrors
          /\ pc \in {"poll", "recv", "yield"} => cause = "")
    /\ [][/\ (pc # "closed" /\ pc' = "closed") =>
                /\ pc \in {"poll", "recv"}
                /\ cause' \in Interruptions \cup FatalErrors
          /\ (pc \in {"poll", "recv", "yield"} /\ pc' \notin {"poll", "recv", "yield"}) =>
                pc' = "closed"]_vars

\* every message the producer side will ever send has been received, some of
\* them malformed, and the stream is waiting on the channel again
UnboundedStreamWitness ==
    /\ pc = "poll"
    /\ chan = <<>>
    /\ sends = MaxSends
    /\ Len(received) = MaxSends
    /\ Dropped >= 1
    /\ yielded # <<>>

\* C15: a stream opened on a client after an earlier stream of it has closed
\* yields nothing out of the handle and view that earlier stream left behind.
NotResumableInPlace == (stream >= 2 /\ attachCalls = 0) => yielded = <<>>

\* C16: every yielded view is the one built for the first decoded header,
\* with that header's shape; a well-formed message received by an Attached
\* client, whatever height, width, channels and buffer_size it reports, makes
\* one more yield of the same view and changes neither the view, nor the
\* handle, nor the system, and constructs no SharedMemory.
DimensionsFixed ==
    /\ [](\A k \in 1..Len(yielded) :
             /\ firstHdr # None
             /\ yielded[k].view.shape = FirstShape
             /\ yielded[k].view.id = firstHdr[1].frame_count)
    /\ [][(/\ pc = "recv"
           /\ Attached
           /\ Len(received') = Len(received) + 1
           /\ received'[Len(received')].ok)
          => /\ pc' = "yield"
             /\ _image_buffer' = _image_buffer
             /\ _shm' = _shm
             /\ os' = os
             /\ attachCalls' = attachCalls
             /\ Len(yielded') = Len(yielded) + 1
             /\ yielded'[Len(yielded')].view = _image_buffer[1]]_vars

\* the view of a 1x2x1 first header was yielded for a later notification
\* reporting 2x2x1 and another buffer_size
DimensionsFixedWitness ==
    /\ pc = "yield"
    /\ Len(yielded) >= 2
    /\ sync_message # None
    /\ firstHdr # None
    /\ sync_message[1].height # firstHdr[1].height
    /\ sync_message[1].buffer_size # firstHdr[1].buffer_size
    /\ yielded[Len(yielded)].frame_count = sync_message[1].frame_count
    /\ yielded[Len(yielded)].view.shape = FirstShape

\* the oldest queued message, decoded
HeadMessage == unmarshal(Head(chan), byteorder)

\* the stream is about to take a well-formed notification of frame fc that it
\* is able to yield for: the client is Attached, or it is Uninitialized and
\* the segment exists and holds the bytes the header asks for
Holding(fc) ==
    /\ pc \in {"poll", "recv"}
    /\ chan # <<>>
    /\ HeadMessage.err = ""
    /\ HeadMessage.val[1].frame_count = fc
    /\ \/ Attached
       \/ /\ Uninitialized
          /\ _shm_name \in DOMAIN os.segs
          /\ HeadMessage.val[1].height * HeadMessage.val[1].width
                * HeadMessage.val[1].channels <= os.segs[_shm_name].size

\* the stream is about to take a malformed message
HoldingMalformed ==
    /\ pc \in {"poll", "recv"}
    /\ chan # <<>>
    /\ HeadMessage.err # ""

\* C17: under LiveSpec, a well-formed notification the stream is about to
\* take, on a client that is Attached or can attach and build the view for it,
\* leads to the yield for that notification; a malformed one leads back to
\* waiting on the channel with that message received as a malformed one; a
\* suspended yield leads to the loop polling again.
Progress ==
    /\ \A fc \in 1..MaxSends :
          Holding(fc) ~> (pc = "yield" /\ yielded[Len(yielded)].frame_count = fc)
    /\ \A n \in 0..MaxSends :
          (HoldingMalformed /\ Len(received) = n) ~>
              (pc = "poll" /\ Len(received) = n + 1 /\ ~received[n + 1].ok)
    /\ (pc = "yield") ~> (pc = "poll")

\* a malformed message was dropped and the two notifications after it were
\* yielded for, the second one while the caller holds the view
ProgressWitness ==
    /\ pc = "yield"
    /\ Len(received) = 3
    /\ ~received[1].ok
    /\ Len(yielded) = 2
    /\ yielded[2].frame_count = received[3].frame_count

\* n bytes of frame k, as the producer writes them
FrameBytes(k, n) == [i \in 1..n |-> k]

\* the latest yield of the stream
LastYield == yielded[Len(yielded)]

\* C18: as long as the producer has written nothing since it sent
\* notification k, the view yielded for k reads frame k's bytes, and so did
\* the copy taken when it was yielded.  (The witness is the other half: the
\* producer goes on writing while the caller holds the view, which then reads
\* a mix of frame k and a later frame.)
NoReadConsistency ==
    (/\ yielded # <<>>
     /\ pframe = LastYield.frame_count + 1
     /\ pcur = 1)
    => /\ ReadView(LastYield.view, os)
             = FrameBytes(LastYield.frame_count, NBytes(LastYield.view.shape))
       /\ LastYield.snap = FrameBytes(LastYield.frame_count, NBytes(LastYield.view.shape))

\* the caller is suspended holding the view yielded for frame k, whose copy
\* at the yield was frame k; the view now reads one byte of frame k + 1 and
\* one of frame k
TornRead ==
    /\ pc = "yield"
    /\ yielded # <<>>
    /\ LastYield.snap = FrameBytes(LastYield.frame_count, NBytes(LastYield.view.shape))
    /\ ReadView(LastYield.view, os)[1] = LastYield.frame_count + 1
    /\ ReadView(LastYield.view, os)[2] = LastYield.frame_count

\* C19: a view exists only on a client that holds a handle, and no stream is
\* ever closed by the assertion of line 70.
HandleBeforeView ==
    /\ _image_buffer # None => _shm # None
    /\ cause # "AssertionError"

\* the first message of the client went through _init_shm, the assertion and
\* np.ndarray: handle and view are set and the view was yielded
HandleBeforeViewWitness ==
    /\ pc = "yield"
    /\ Len(received) = 1
    /\ attachCalls = 1
    /\ _shm # None
    /\ _image_buffer # None
    /\ yielded[1].view = _image_buffer[1]

\* the client holds a handle and no view
HalfAttached == _shm # None /\ _image_buffer = None

\* C20: a stream closed by the attach error leaves the client Uninitialized,
\* and a client whose segment is missing stays so; a stream closed by the
\* view construction error leaves the handle of the one successful attach and
\* no view.  A client with a handle and no view got there by a first header
\* asking more bytes than the handle's buffer holds; it never yields, and any
\* stream of it that received a well-formed notification is closed: by
\* TypeError if it is the stream that attached, by the already-attached
\* ValueError otherwise.
FailedFirstNotification ==
    /\ cause = "FileNotFoundError" => Uninitialized /\ attachOk = 0
    /\ _shm_name \notin DOMAIN os.segs => Uninitialized
    /\ cause = "TypeError" => HalfAttached /\ attachOk = 1 /\ attachCalls = 1
    /\ HalfAttached =>
          /\ firstHdr # None
          /\ NBytes(FirstShape) > BufLen(_shm[1])
          /\ attachOk = 1
          /\ yielded = <<>>
          /\ Len(WellFormed) <= 1
          /\ Len(WellFormed) = 1 =>
                /\ pc \in {"closed", "exited"}
                /\ attachCalls = 1 => cause = "TypeError"
                /\ attachCalls = 0 => cause = "ValueError"

\* the first stream attached and failed to build the view; the second stream
\* of the client dropped a malformed message and was then closed by the
\* already-attached error on a well-formed one
FailedFirstNotificationWitness ==
    /\ stream = 2
    /\ HalfAttached
    /\ pc = "closed"
    /\ cause = "ValueError"
    /\ Len(received) = 2
    /\ ~received[1].ok
    /\ received[2].ok
    /\ yielded = <<>>

====
